---- MODULE Spec2Model ----
(***************************************************************************)
(* Model of the admin session manager of photoboot                         *)
(* (src/app/admin/auth.py, class AdminAuth): login, validation, refresh,   *)
(* logout and expiry sweep of signed session tokens over two backends, the *)
(* in-process map active_sessions and an optional Redis server.            *)
(*                                                                         *)
(* The clock counts half seconds, so that the truncation int(time.time())  *)
(* of the token signer is not the identity.  A handler runs atomically:    *)
(* the clock advances between handlers, and the reachability of Redis      *)
(* changes between two clock readings, before the calls made at the new    *)
(* reading.                                                                *)
(*                                                                         *)
(* Redis is used only when the condition of auth.py:36 holds at            *)
(* construction (the redis package is importable and the configuration     *)
(* object has a redis attribute); both outcomes are initial states.        *)
(***************************************************************************)
EXTENDS Integers, FiniteSets, Sequences, TLC

VARIABLES
    now,              \* time.time(), in half seconds
    redisConfigured,  \* the condition of auth.py:36 held at construction
    redisUp,          \* the Redis server answers (environment)
    use_redis,        \* self.use_redis (and self.redis_client is set)
    active_sessions,  \* self.active_sessions: token -> session_data
    redis,            \* the Redis keys admin_session:<token> -> [json, when]
    issued,           \* history: every token a handler has handed out
    issuedAt,         \* history: token -> time.time() of the call that minted it
    last,             \* history: the last handler call at this clock reading
    pending,          \* the refresh_session calls that run statement by statement
    object,           \* which dict object a key of active_sessions is bound to,
                      \* for the keys that share theirs with another key
    order,            \* the keys of active_sessions in insertion order (routes)
    effects,          \* history: the side effects the routes have performed
    prints,           \* the files of data/prints: path -> image
    print_attempts,   \* printing.print_attempts: client address -> attempt times
    accepted,         \* history: client address -> times of the requests let through
    job,              \* the PrinterManager and its print_photo call, by statement
    frames_config,    \* config/frames.json: the list of frames
    frame_files       \* the files of the frames directory

(* the state outside the session manager *)
others == <<order, effects, prints, print_attempts, accepted, job, frames_config,
            frame_files>>

(* the same, less the part a subsystem writes *)
notRoutes == <<prints, print_attempts, accepted, job, frames_config, frame_files>>

notLayout == <<order, effects, print_attempts, accepted, job, frames_config, frame_files>>

notPrinting == <<order, effects, prints, job, frames_config, frame_files>>

notPrinter == <<order, effects, prints, print_attempts, accepted, frames_config,
                frame_files>>

notFrames == <<order, effects, prints, print_attempts, accepted, job>>

(* the state of the session manager but the clock and the last call *)
sessions == <<redisConfigured, redisUp, use_redis, active_sessions, redis, issued,
              issuedAt, pending, object>>

vars == <<now, redisConfigured, redisUp, use_redis, active_sessions, redis,
          issued, issuedAt, last, pending, object, others>>

-----------------------------------------------------------------------------
(* Bounds and configuration *)

(* at most MaxTokens distinct tokens are handed out *)
MaxTokens == 2

(* security.session_timeout, in seconds (the configuration allows 300..86400;
   the model scales it down to one second) *)
SessionTimeout == 1

(* the same, in half seconds *)
TimeoutTicks == 2 * SessionTimeout

(* the clock stops after two session lifetimes, when every token handed out
   in the first one is dead on the store path and on the signed-token path *)
MaxTime == 2 * TimeoutTicks

(* bcrypt.hashpw, as far as equality of hashes goes *)
Hash(password) == <<"bcrypt", password>>

(* admin.username / admin.password_hash of the configuration *)
AdminUsername == "admin"
AdminPasswordHash == Hash("secret")

Usernames == {"admin", "guest"}
Passwords == {"secret", "wrong"}

-----------------------------------------------------------------------------
(* Values *)

None == [none |-> TRUE]

SessionData(u, lt, ea) == [username |-> u, login_time |-> lt, expires_at |-> ea]

(* json.dumps / json.loads of a session_data dict: the three fields in a row *)
JsonDumps(sd) == <<sd.username, sd.login_time, sd.expires_at>>

JsonLoads(js) == SessionData(js[1], js[2], js[3])

(* int(time.time()): whole seconds *)
IntSeconds(t) == t \div 2

(* URLSafeTimedSerializer.dumps: the payload, the signing time in whole
   seconds, and the signature over both *)
Dumps(sd, t) == [payload |-> JsonDumps(sd), ts |-> IntSeconds(t), sig |-> "ok"]

(* a token whose signature does not verify *)
ForgedToken == [payload |-> JsonDumps(SessionData(AdminUsername, 0, MaxTime + TimeoutTicks)),
                ts |-> 0, sig |-> "bad"]

Loads_IgnoresAge(token, max_age, t) ==
    IF token.sig # "ok" THEN [err |-> "BadSignature", data |-> None]
    ELSE [err |-> "", data |-> JsonLoads(token.payload)]

(* URLSafeTimedSerializer.loads(token, max_age): BadSignature,
   SignatureExpired (age > max_age), or the payload *)
Loads(token, max_age, t) ==
    IF token.sig # "ok" THEN [err |-> "BadSignature", data |-> None]
    ELSE IF IntSeconds(t) - token.ts > max_age
         THEN [err |-> "SignatureExpired", data |-> None]
         ELSE [err |-> "", data |-> JsonLoads(token.payload)]

(* _get_session_key: "admin_session:" + token, one key per token *)
GetSessionKey(token) == token

VerifyPassword_AcceptsAll(password, password_hash) == TRUE

(* _verify_password: bcrypt.checkpw; an exception counts as False *)
VerifyPassword(password, password_hash) == Hash(password) = password_hash

-----------------------------------------------------------------------------
(* The two backends. A store S is [mem |-> active_sessions, rds |-> redis]. *)

Put(f, k, v) == [x \in (DOMAIN f) \cup {k} |-> IF x = k THEN v ELSE f[x]]

Drop(f, k) == [x \in (DOMAIN f) \ {k} |-> f[x]]

(* Redis drops a key once its TTL has run out *)
RedisLive(r, t) == [k \in {x \in DOMAIN r : ~(t > r[x].when)} |-> r[k]]

StoreSession_NoFallback(S, token, session_data) ==
    IF use_redis /\ redisUp
    THEN [S EXCEPT !.rds = Put(S.rds, GetSessionKey(token),
                               [json |-> JsonDumps(session_data),
                                when |-> now + TimeoutTicks])]
    ELSE IF use_redis
    THEN S
    ELSE [S EXCEPT !.mem = Put(S.mem, token, session_data)]

(* _store_session: setex with the session timeout as TTL; the in-process map
   when Redis is not in use or the call raises *)
StoreSession(S, token, session_data) ==
    IF use_redis /\ redisUp
    THEN [S EXCEPT !.rds = Put(S.rds, GetSessionKey(token),
                               [json |-> JsonDumps(session_data),
                                when |-> now + TimeoutTicks])]
    ELSE [S EXCEPT !.mem = Put(S.mem, token, session_data)]

(* _get_session *)
GetSession(S, token) ==
    IF use_redis /\ redisUp
    THEN IF GetSessionKey(token) \in DOMAIN S.rds
         THEN JsonLoads(S.rds[GetSessionKey(token)].json)
         ELSE None
    ELSE IF token \in DOMAIN S.mem THEN S.mem[token] ELSE None

DeleteSession_KeepsRecord(S, token) ==
    [S |-> S, ret |-> IF use_redis /\ redisUp
                      THEN GetSessionKey(token) \in DOMAIN S.rds
                      ELSE token \in DOMAIN S.mem]

(* _delete_session: the store afterwards and the returned bool *)
DeleteSession(S, token) ==
    IF use_redis /\ redisUp
    THEN [S |-> [S EXCEPT !.rds = Drop(S.rds, GetSessionKey(token))],
          ret |-> GetSessionKey(token) \in DOMAIN S.rds]
    ELSE [S |-> [S EXCEPT !.mem = Drop(S.mem, token)],
          ret |-> token \in DOMAIN S.mem]

ExpiredTokens_Inclusive(S) == {tk \in DOMAIN S.mem : now >= S.mem[tk].expires_at}

(* _cleanup_expired_sessions: the tokens it collects *)
ExpiredTokens(S) == {tk \in DOMAIN S.mem : now > S.mem[tk].expires_at}

(* _cleanup_expired_sessions: the store afterwards and the returned count *)
CleanupExpiredSessions(S) ==
    IF use_redis
    THEN [S |-> S, ret |-> 0]
    ELSE [S |-> [S EXCEPT !.mem = [tk \in (DOMAIN S.mem) \ ExpiredTokens(S) |-> S.mem[tk]]],
          ret |-> Cardinality(ExpiredTokens(S))]

-----------------------------------------------------------------------------
(* The public operations: the store afterwards and the returned value *)

LoginResponse(success, message, token) ==
    [success |-> success, message |-> message, token |-> token]

LogoutResponse(success, message) == [success |-> success, message |-> message]

Authenticate_NamesField(S, login_data) ==
    IF login_data.username # AdminUsername
    THEN [S |-> S, ret |-> LoginResponse(FALSE, "Nom d'utilisateur incorrect", None)]
    ELSE IF ~VerifyPassword(login_data.password, AdminPasswordHash)
    THEN [S |-> S, ret |-> LoginResponse(FALSE, "Mot de passe incorrect", None)]
    ELSE LET session_data == SessionData(login_data.username, now, now + TimeoutTicks)
             token == Dumps(session_data, now)
         IN  [S |-> StoreSession(S, token, session_data),
              ret |-> LoginResponse(TRUE, "Connexion reussie", token)]

(* authenticate *)
Authenticate(S, login_data) ==
    IF login_data.username # AdminUsername
    THEN [S |-> S, ret |-> LoginResponse(FALSE, "Nom d'utilisateur ou mot de passe incorrect", None)]
    ELSE IF ~VerifyPassword(login_data.password, AdminPasswordHash)
    THEN [S |-> S, ret |-> LoginResponse(FALSE, "Nom d'utilisateur ou mot de passe incorrect", None)]
    ELSE LET session_data == SessionData(login_data.username, now, now + TimeoutTicks)
             token == Dumps(session_data, now)
         IN  [S |-> StoreSession(S, token, session_data),
              ret |-> LoginResponse(TRUE, "Connexion reussie", token)]

RecordExpired_AtBoundary(session_data) == now >= session_data.expires_at

(* validate_session: time.time() > session_data["expires_at"] *)
RecordExpired(session_data) == now > session_data.expires_at

ValidateSession_SweepsToo(S, token) ==
    LET session_data == GetSession(S, token) IN
    IF session_data # None
    THEN IF RecordExpired(session_data)
         THEN [S |-> CleanupExpiredSessions(DeleteSession(S, token).S).S, ret |-> None]
         ELSE [S |-> S, ret |-> session_data]
    ELSE LET decoded == Loads(token, SessionTimeout, now) IN
         IF decoded.err # ""
         THEN [S |-> S, ret |-> None]
         ELSE LET S2 == StoreSession(S, token, decoded.data)
              IN  [S |-> S2, ret |-> GetSession(S2, token)]

(* validate_session *)
ValidateSession(S, token) ==
    LET session_data == GetSession(S, token) IN
    IF session_data # None
    THEN IF RecordExpired(session_data)
         THEN [S |-> DeleteSession(S, token).S, ret |-> None]
         ELSE [S |-> S, ret |-> session_data]
    ELSE LET decoded == Loads(token, SessionTimeout, now) IN
         IF decoded.err # ""
         THEN [S |-> S, ret |-> None]
         ELSE LET S2 == StoreSession(S, token, decoded.data)
              IN  [S |-> S2, ret |-> GetSession(S2, token)]

Logout_Propagates(S, token) ==
    LET d == DeleteSession(S, token) IN
    IF d.ret
    THEN IF GetSession(d.S, token) = None
         THEN [S |-> d.S, ret |-> [raised |-> "AttributeError"]]
         ELSE [S |-> d.S, ret |-> LogoutResponse(TRUE, "Deconnexion reussie")]
    ELSE [S |-> d.S, ret |-> LogoutResponse(FALSE, "Session non trouvee")]

(* logout: a successful delete is followed by _get_session(token).get(...),
   which raises on None and lands in the except branch *)
Logout(S, token) ==
    LET d == DeleteSession(S, token) IN
    IF d.ret
    THEN IF GetSession(d.S, token) = None
         THEN [S |-> d.S, ret |-> LogoutResponse(FALSE, "Erreur lors de la deconnexion")]
         ELSE [S |-> d.S, ret |-> LogoutResponse(TRUE, "Deconnexion reussie")]
    ELSE [S |-> d.S, ret |-> LogoutResponse(FALSE, "Session non trouvee")]

RefreshSession_KeepsExpiry(S, token) ==
    LET session_data == GetSession(S, token) IN
    IF session_data = None
    THEN [S |-> S, ret |-> None]
    ELSE LET new_token == Dumps(session_data, now)
             S2 == StoreSession(S, new_token, session_data)
         IN  [S |-> DeleteSession(S2, token).S, ret |-> new_token]

(* refresh_session: the in-process map hands out the stored dict itself, so
   the assignment to expires_at also changes the record under the old token *)
RefreshSession(S, token) ==
    LET session_data == GetSession(S, token) IN
    IF session_data = None
    THEN [S |-> S, ret |-> None]
    ELSE LET refreshed == [session_data EXCEPT !.expires_at = now + TimeoutTicks]
             S1 == IF use_redis /\ redisUp THEN S
                   ELSE [S EXCEPT !.mem = Put(S.mem, token, refreshed)]
             new_token == Dumps(refreshed, now)
             S2 == StoreSession(S1, new_token, refreshed)
         IN  [S |-> DeleteSession(S2, token).S, ret |-> new_token]

RefreshSessionStates_DeleteFirst(S, token) ==
    LET session_data == GetSession(S, token) IN
    IF session_data = None
    THEN <<S>>
    ELSE LET refreshed == [session_data EXCEPT !.expires_at = now + TimeoutTicks]
             S1 == IF use_redis /\ redisUp THEN S
                   ELSE [S EXCEPT !.mem = Put(S.mem, token, refreshed)]
             new_token == Dumps(refreshed, now)
             S2 == DeleteSession(S1, token).S
         IN  <<S, S1, S2, StoreSession(S2, new_token, refreshed)>>

(* refresh_session: the stores it goes through, one after each statement
   that can change a backend (the assignment to expires_at, _store_session
   of the new token, _delete_session of the old one) *)
RefreshSessionStates(S, token) ==
    LET session_data == GetSession(S, token) IN
    IF session_data = None
    THEN <<S>>
    ELSE LET refreshed == [session_data EXCEPT !.expires_at = now + TimeoutTicks]
             S1 == IF use_redis /\ redisUp THEN S
                   ELSE [S EXCEPT !.mem = Put(S.mem, token, refreshed)]
             new_token == Dumps(refreshed, now)
             S2 == StoreSession(S1, new_token, refreshed)
         IN  <<S, S1, S2, DeleteSession(S2, token).S>>

(* get_session_info: the two times as ISO strings and the time left *)
GetSessionInfo(S, token) ==
    LET session_data == GetSession(S, token) IN
    IF session_data = None
    THEN None
    ELSE [username |-> session_data.username,
          login_time |-> <<"isoformat", session_data.login_time>>,
          expires_at |-> <<"isoformat", session_data.expires_at>>,
          remaining_time |-> IF session_data.expires_at - now > 0
                             THEN session_data.expires_at - now ELSE 0]

(* get_active_sessions_count *)
GetActiveSessionsCount(S) == Cardinality(DOMAIN S.mem)

-----------------------------------------------------------------------------
(* The administrative routes over the sessions (src/app/routes/admin.py) *)

(* get_current_admin: the session of the token the request carries *)
GetCurrentAdmin(S, token) == ValidateSession(S, token)

(* POST /admin/sessions/terminate-all *)
TerminateAllSessions(S, token) ==
    LET current_admin == GetCurrentAdmin(S, token) IN
    IF current_admin.ret = None
    THEN [S |-> current_admin.S,
          ret |-> [status_code |-> "401", detail |-> "Non authentifie"]]
    ELSE LET swept == CleanupExpiredSessions(current_admin.S)
         IN  [S |-> swept.S,
              ret |-> [status_code |-> "200", success |-> TRUE,
                       terminated_count |-> swept.ret]]

(* GET /admin/sessions: one entry per record of the in-process map with
   current_time < expires_at, for an authenticated caller *)
GetActiveSessions(S) ==
    {[username |-> S.mem[tk].username,
      login_time |-> <<"strftime", S.mem[tk].login_time>>,
      expires_at |-> <<"strftime", S.mem[tk].expires_at>>,
      remaining_time |-> S.mem[tk].expires_at - now] :
        tk \in {k \in DOMAIN S.mem : now < S.mem[k].expires_at}}

(* raise HTTPException(status_code, detail) *)
HTTPException(status_code, detail) == [status_code |-> status_code, detail |-> detail]

(* an exception raised in a try body whose handlers begin with
   "except HTTPException: raise" leaves the route as it is *)
ExceptHTTPException(exc, detail) == exc

(* an exception raised in a try body whose only handler is
   "except Exception": HTTPException is an Exception, so it is caught too, and
   the handler raises a 500 in its place *)
ExceptException(exc, detail) == HTTPException("500", detail)

(* the keys of the dict mem in insertion order, from the order before the
   handler ran: kept keys keep their place, a new key goes to the end (a
   handler inserts at most one) *)
Reorder(ord, mem) ==
    LET Kept(k) == k \in DOMAIN mem
        new == (DOMAIN mem) \ {ord[i] : i \in DOMAIN ord}
    IN  IF new = {}
        THEN SelectSeq(ord, Kept)
        ELSE Append(SelectSeq(ord, Kept), CHOOSE k \in new : TRUE)

(* the loop over admin_auth.active_sessions.items() of the logout and refresh
   routes: the first key whose record has the caller's username *)
FirstSessionOf(mem, ord, username) ==
    LET hits == {i \in DOMAIN ord : mem[ord[i]].username = username}
    IN  IF hits = {}
        THEN None
        ELSE ord[CHOOSE i \in hits : \A j \in hits : i <= j]

(* POST /admin/login *)
AdminLogin(S, login_data) ==
    LET auth_result == Authenticate(S, login_data)
    IN  [S |-> auth_result.S,
         set_cookie |-> IF auth_result.ret.success THEN auth_result.ret.token ELSE None,
         ret |-> [status_code |-> "200", body |-> auth_result.ret]]

(* POST /admin/logout: the token the request carries only identifies the
   caller; the session logged out is the one the loop finds *)
AdminLogout(S, ord, token) ==
    LET current_admin == GetCurrentAdmin(S, token)
        S0 == current_admin.S
        session_token == IF current_admin.ret = None
                         THEN None
                         ELSE FirstSessionOf(S0.mem, Reorder(ord, S0.mem),
                                             current_admin.ret.username)
    IN  IF session_token # None
        THEN LET logout_result == Logout(S0, session_token)
             IN  [S |-> logout_result.S, session_token |-> session_token,
                  ret |-> [status_code |-> "200", body |-> logout_result.ret]]
        ELSE [S |-> S0, session_token |-> None,
              ret |-> [status_code |-> "200",
                       body |-> LogoutResponse(TRUE,
                                    "Deconnexion reussie (session non trouvee)")]]

(* POST /admin/refresh *)
RefreshSessionRoute(S, ord, token) ==
    LET current_admin == GetCurrentAdmin(S, token)
        S0 == current_admin.S
        detail == "Erreur interne lors du rafraichissement de la session"
    IN  IF current_admin.ret = None
        THEN [S |-> S0, session_token |-> None,
              ret |-> ExceptHTTPException(HTTPException("401", "Non authentifie"), detail)]
        ELSE LET session_token == FirstSessionOf(S0.mem, Reorder(ord, S0.mem),
                                                 current_admin.ret.username)
             IN  IF session_token = None
                 THEN [S |-> S0, session_token |-> None,
                       ret |-> ExceptHTTPException(
                                   HTTPException("400", "Token de session non trouve"),
                                   detail)]
                 ELSE LET refreshed == RefreshSession(S0, session_token)
                      IN  IF refreshed.ret # None
                          THEN [S |-> refreshed.S, session_token |-> session_token,
                                ret |-> [status_code |-> "200", success |-> TRUE,
                                         new_token |-> refreshed.ret]]
                          ELSE [S |-> refreshed.S, session_token |-> session_token,
                                ret |-> ExceptHTTPException(
                                            HTTPException("500",
                                                "Erreur lors du rafraichissement de la session"),
                                            detail)]

(* GET /admin/sessions (routes/auth.py): the 401 is raised inside the try *)
GetSessionsInfo(S, token) ==
    LET current_admin == GetCurrentAdmin(S, token)
        detail == "Erreur interne lors de la recuperation des informations de session"
    IN  IF current_admin.ret = None
        THEN [S |-> current_admin.S, did |-> {},
              ret |-> ExceptException(HTTPException("401", "Non authentifie"), detail)]
        ELSE LET swept == CleanupExpiredSessions(current_admin.S)
                 active == {tk \in DOMAIN swept.S.mem : GetSessionInfo(swept.S, tk) # None}
             IN  [S |-> swept.S, did |-> {"cleanup_expired_sessions"},
                  ret |-> [status_code |-> "200",
                           total_sessions |-> Cardinality(active),
                           expired_cleaned |-> swept.ret]]

(* GET /config/reload: the 401 is raised inside the try *)
ReloadConfig(S, token) ==
    LET current_admin == GetCurrentAdmin(S, token)
        detail == "Erreur lors du rechargement de la configuration"
    IN  IF current_admin.ret = None
        THEN [S |-> current_admin.S, did |-> {},
              ret |-> ExceptException(HTTPException("401", "Authentification requise"),
                                      detail)]
        ELSE [S |-> current_admin.S, did |-> {"config_manager.reload"},
              ret |-> [status_code |-> "200",
                       message |-> "Configuration rechargee avec succes"]]

-----------------------------------------------------------------------------
(* The state machine *)

Store == [mem |-> active_sessions, rds |-> redis]

(* a handler call: its argument, the record the store held for the token
   when the call began, and the returned value *)
Call(op, arg, pre, ret) == [op |-> op, arg |-> arg, pre |-> pre, ret |-> ret]

NoCall == Call("none", None, None, None)

Presented == issued \cup {ForgedToken}

(* the request handlers that can be inside refresh_session at the same time *)
Callers == {"A", "B"}

(* a caller's position in refresh_session and the values of its locals *)
Frame(pc, token, live, session_data, ref, new_token, started, ret) ==
    [pc |-> pc, token |-> token, live |-> live, session_data |-> session_data,
     ref |-> ref, new_token |-> new_token, started |-> started, ret |-> ret]

Idle == Frame("idle", None, FALSE, None, None, None, 0, None)

(* the PrinterManager (the print method its platform offers, retry_attempts)
   and the position and locals of its print_photo call; prepared tells
   whether the prepared image is the image itself or a temporary file; trace
   is the history of the platform print calls and sleeps of the call *)
Job(pc, platform, retry_attempts, attempt, prepared, trace, ret) ==
    [pc |-> pc, platform |-> platform, retry_attempts |-> retry_attempts,
     attempt |-> attempt, prepared |-> prepared, trace |-> trace, ret |-> ret]

Init ==
    /\ now = 0
    /\ redisConfigured \in BOOLEAN
    /\ redisUp \in (IF redisConfigured THEN BOOLEAN ELSE {FALSE})
    /\ use_redis = (redisConfigured /\ redisUp)
    /\ active_sessions = <<>>
    /\ redis = <<>>
    /\ issued = {}
    /\ issuedAt = <<>>
    /\ last = NoCall
    /\ pending = [c \in Callers |-> Idle]
    /\ object = <<>>
    /\ order = <<>>
    /\ effects = {}
    /\ prints = <<>>
    /\ print_attempts = <<>>
    /\ accepted = <<>>
    /\ job = Job("unbuilt", "none", 0, 0, "image", <<>>, None)
    /\ frames_config = <<>>
    /\ frame_files = {}

DoAuthenticate(u, p) ==
    \E r \in {Authenticate(Store, [username |-> u, password |-> p])} :
        /\ r.ret.success => Cardinality(issued \cup {r.ret.token}) <= MaxTokens
        /\ active_sessions' = r.S.mem
        /\ redis' = r.S.rds
        /\ issued' = IF r.ret.success THEN issued \cup {r.ret.token} ELSE issued
        /\ issuedAt' = IF r.ret.success THEN Put(issuedAt, r.ret.token, now) ELSE issuedAt
        /\ last' = Call("authenticate", [username |-> u, password |-> p], None, r.ret)
        /\ UNCHANGED <<others, now, redisConfigured, redisUp, use_redis, pending, object>>

DoValidateSession(token) ==
    \E r \in {ValidateSession(Store, token)} :
        /\ active_sessions' = r.S.mem
        /\ redis' = r.S.rds
        /\ last' = Call("validate_session", token, GetSession(Store, token), r.ret)
        /\ UNCHANGED <<others, now, redisConfigured, redisUp, use_redis, issued, issuedAt,
                       pending, object>>

DoLogout(token) ==
    \E r \in {Logout(Store, token)} :
        /\ active_sessions' = r.S.mem
        /\ redis' = r.S.rds
        /\ last' = Call("logout", token, GetSession(Store, token), r.ret)
        /\ UNCHANGED <<others, now, redisConfigured, redisUp, use_redis, issued, issuedAt,
                       pending, object>>

DoRefreshSession(token) ==
    \E r \in {RefreshSession(Store, token)} :
        /\ r.ret # None => Cardinality(issued \cup {r.ret}) <= MaxTokens
        /\ active_sessions' = r.S.mem
        /\ redis' = r.S.rds
        /\ issued' = IF r.ret # None THEN issued \cup {r.ret} ELSE issued
        /\ issuedAt' = IF r.ret # None THEN Put(issuedAt, r.ret, now) ELSE issuedAt
        /\ last' = Call("refresh_session", token, GetSession(Store, token), r.ret)
        /\ UNCHANGED <<others, now, redisConfigured, redisUp, use_redis, pending, object>>

DoCleanupExpiredSessions ==
    \E r \in {CleanupExpiredSessions(Store)} :
        /\ active_sessions' = r.S.mem
        /\ redis' = r.S.rds
        /\ last' = Call("cleanup_expired_sessions", None, None, [count |-> r.ret])
        /\ UNCHANGED <<others, now, redisConfigured, redisUp, use_redis, issued, issuedAt,
                       pending, object>>

DoTerminateAllSessions(token) ==
    \E r \in {TerminateAllSessions(Store, token)} :
        /\ active_sessions' = r.S.mem
        /\ redis' = r.S.rds
        /\ last' = Call("terminate_all_sessions", token, GetSession(Store, token), r.ret)
        /\ UNCHANGED <<others, now, redisConfigured, redisUp, use_redis, issued, issuedAt,
                       pending, object>>

AuthenticateStep == \E u \in Usernames, p \in Passwords : DoAuthenticate(u, p)

ValidateSessionStep == \E token \in Presented : DoValidateSession(token)

LogoutStep == \E token \in issued : DoLogout(token)

RefreshSessionStep == \E token \in issued : DoRefreshSession(token)

TerminateAllSessionsStep == \E token \in issued : DoTerminateAllSessions(token)

(* the clock advances; Redis drops the keys whose TTL has run out *)
Tick ==
    /\ now < MaxTime
    /\ now' = now + 1
    /\ redis' = RedisLive(redis, now + 1)
    /\ last' = NoCall
    /\ UNCHANGED <<others, redisConfigured, redisUp, use_redis, active_sessions, issued,
                   issuedAt, pending, object>>

(* the Redis server becomes unreachable, or reachable again *)
RedisOutage ==
    /\ redisConfigured
    /\ last = NoCall
    /\ redisUp
    /\ redisUp' = FALSE
    /\ UNCHANGED <<others, now, redisConfigured, use_redis, active_sessions, redis, issued,
                   issuedAt, last, pending, object>>

RedisRecovery ==
    /\ redisConfigured
    /\ last = NoCall
    /\ ~redisUp
    /\ redisUp' = TRUE
    /\ UNCHANGED <<others, now, redisConfigured, use_redis, active_sessions, redis, issued,
                   issuedAt, last, pending, object>>

Next ==
    \/ AuthenticateStep
    \/ ValidateSessionStep
    \/ LogoutStep
    \/ RefreshSessionStep
    \/ DoCleanupExpiredSessions
    \/ TerminateAllSessionsStep
    \/ Tick
    \/ RedisOutage
    \/ RedisRecovery

Spec == Init /\ [][Next]_vars

-----------------------------------------------------------------------------
(* refresh_session statement by statement, for two callers on one token:    *)
(* caller A enters first, caller B enters with the same token while A has   *)
(* not returned.  The backends keep the reachability they had at            *)
(* construction.  A call is shorter than a step of the clock: it sees at    *)
(* most two clock readings.  The history variable last is not kept for     *)
(* these calls.                                                             *)

(* the in-process map is the backend in use *)
InProcess == ~(use_redis /\ redisUp)

(* the dict object a key of active_sessions is bound to, named after the
   key it was first stored under *)
ObjOf(k) == IF k \in DOMAIN object THEN object[k] ELSE k

(* the record is there and has not expired *)
Live(session_data) == session_data # None /\ ~RecordExpired(session_data)

(* a request handler enters refresh_session(token); live: the token has a
   record that does not expire before the call has returned *)
RefreshCall(c, token) ==
    /\ pending[c].pc = "idle"
    /\ IF c = "A" THEN pending["B"].pc = "idle"
                  ELSE pending["A"].pc # "idle" /\ pending["A"].token = token
    /\ pending' = [pending EXCEPT ![c] =
                      Frame("get", token,
                            /\ Live(GetSession(Store, token))
                            /\ now < GetSession(Store, token).expires_at,
                            None, None, None, now, None)]
    /\ last' = NoCall
    /\ UNCHANGED <<others, now, redisConfigured, redisUp, use_redis, active_sessions, redis,
                   issued, issuedAt, object>>

(* session_data = self._get_session(token): the stored dict itself from the
   in-process map, a decoded copy from Redis; None ends the call *)
RefreshGet(c) ==
    LET p == pending[c]
        session_data == GetSession(Store, p.token)
    IN  /\ p.pc = "get"
        /\ pending' = [pending EXCEPT ![c] =
               IF session_data = None
               THEN [p EXCEPT !.pc = "done"]
               ELSE [p EXCEPT !.pc = "set", !.session_data = session_data,
                              !.ref = IF InProcess THEN ObjOf(p.token) ELSE None]]
        /\ UNCHANGED <<others, now, redisConfigured, redisUp, use_redis, active_sessions, redis,
                       issued, issuedAt, last, object>>

(* session_data["expires_at"] = time.time() + session_timeout: seen under
   every key bound to the same dict and by every caller that holds it *)
RefreshSet(c) ==
    LET p == pending[c]
        v == [p.session_data EXCEPT !.expires_at = now + TimeoutTicks]
    IN  /\ p.pc = "set"
        /\ active_sessions' =
               IF p.ref = None THEN active_sessions
               ELSE [k \in DOMAIN active_sessions |->
                        IF ObjOf(k) = p.ref THEN v ELSE active_sessions[k]]
        /\ pending' = [q \in Callers |->
               IF q = c THEN [p EXCEPT !.pc = "dumps", !.session_data = v]
               ELSE IF /\ p.ref # None
                       /\ pending[q].ref = p.ref
                       /\ pending[q].pc \in {"set", "dumps", "store", "delete"}
                    THEN [pending[q] EXCEPT !.session_data = v]
                    ELSE pending[q]]
        /\ UNCHANGED <<others, now, redisConfigured, redisUp, use_redis, redis,
                       issued, issuedAt, last, object>>

(* new_token = self.serializer.dumps(session_data) *)
RefreshDumps(c) ==
    LET p == pending[c]
        new_token == Dumps(p.session_data, now)
    IN  /\ p.pc = "dumps"
        /\ Cardinality(issued \cup {new_token}) <= MaxTokens + 1
        /\ pending' = [pending EXCEPT ![c] = [p EXCEPT !.pc = "store", !.new_token = new_token]]
        /\ issued' = issued \cup {new_token}
        /\ issuedAt' = Put(issuedAt, new_token, p.session_data.expires_at - TimeoutTicks)
        /\ UNCHANGED <<others, now, redisConfigured, redisUp, use_redis, active_sessions, redis,
                       last, object>>

RefreshStore_Skips(c) ==
    LET p == pending[c] IN
    /\ p.pc = "store"
    /\ pending' = [pending EXCEPT ![c] = [p EXCEPT !.pc = "delete"]]
    /\ UNCHANGED <<others, now, redisConfigured, redisUp, use_redis, active_sessions, redis,
                   issued, issuedAt, last, object>>

(* self._store_session(new_token, session_data) *)
RefreshStore(c) ==
    LET p == pending[c] IN
    /\ p.pc = "store"
    /\ \E S2 \in {StoreSession(Store, p.new_token, p.session_data)} :
        /\ active_sessions' = S2.mem
        /\ redis' = S2.rds
        /\ object' = IF p.ref = None THEN object
                     ELSE IF p.new_token = p.ref THEN Drop(object, p.new_token)
                     ELSE Put(object, p.new_token, p.ref)
        /\ pending' = [pending EXCEPT ![c] = [p EXCEPT !.pc = "delete"]]
        /\ UNCHANGED <<others, now, redisConfigured, redisUp, use_redis, issued, issuedAt, last>>

(* self._delete_session(token); return new_token *)
RefreshDelete(c) ==
    LET p == pending[c] IN
    /\ p.pc = "delete"
    /\ \E d \in {DeleteSession(Store, p.token)} :
        /\ active_sessions' = d.S.mem
        /\ redis' = d.S.rds
        /\ object' = IF InProcess THEN Drop(object, p.token) ELSE object
        /\ pending' = [pending EXCEPT ![c] =
               [p EXCEPT !.pc = "done", !.session_data = None, !.ref = None,
                         !.ret = p.new_token]]
        /\ UNCHANGED <<others, now, redisConfigured, redisUp, use_redis, issued, issuedAt, last>>

(* the calls that ran together have all returned *)
RaceReturn ==
    /\ \A c \in Callers : pending[c].pc \in {"idle", "done"}
    /\ \E c \in Callers : pending[c].pc = "done"
    /\ pending' = [c \in Callers |-> Idle]
    /\ UNCHANGED <<others, now, redisConfigured, redisUp, use_redis, active_sessions, redis,
                   issued, issuedAt, last, object>>

RefreshCallStep == \E c \in Callers, token \in issued : RefreshCall(c, token)

RefreshGetStep == \E c \in Callers : RefreshGet(c)

RefreshSetStep == \E c \in Callers : RefreshSet(c)

RefreshDumpsStep == \E c \in Callers : RefreshDumps(c)

RefreshStoreStep == \E c \in Callers : RefreshStore(c)

RefreshDeleteStep == \E c \in Callers : RefreshDelete(c)

(* the clock advances, at most once within a call *)
RaceTick ==
    /\ \A c \in Callers : pending[c].pc # "idle" => pending[c].started = now
    /\ Tick

(* a login with the configured credentials, between two groups of racing
   calls *)
RaceAuthenticate ==
    /\ \A c \in Callers : pending[c].pc = "idle"
    /\ DoAuthenticate(AdminUsername, "secret")

NextRace ==
    \/ RaceAuthenticate
    \/ RefreshCallStep
    \/ RefreshGetStep
    \/ RefreshSetStep
    \/ RefreshDumpsStep
    \/ RefreshStoreStep
    \/ RefreshDeleteStep
    \/ RaceReturn
    \/ RaceTick

SpecRace == Init /\ [][NextRace]_vars

-----------------------------------------------------------------------------
(* The routes over the session manager (src/app/routes/auth.py, admin.py,   *)
(* config_api.py).  A request carries one token, as cookie or as Bearer     *)
(* header; a route runs without interleaving, as the handlers of AdminAuth  *)
(* do not await.                                                            *)

LoginRequest(u, p) ==
    \E r \in {AdminLogin(Store, [username |-> u, password |-> p])} :
        /\ r.set_cookie # None => Cardinality(issued \cup {r.set_cookie}) <= MaxTokens
        /\ active_sessions' = r.S.mem
        /\ redis' = r.S.rds
        /\ order' = Reorder(order, r.S.mem)
        /\ issued' = IF r.set_cookie # None THEN issued \cup {r.set_cookie} ELSE issued
        /\ issuedAt' = IF r.set_cookie # None THEN Put(issuedAt, r.set_cookie, now)
                       ELSE issuedAt
        /\ last' = Call("POST /admin/login", [username |-> u, password |-> p], None, r.ret)
        /\ UNCHANGED <<now, redisConfigured, redisUp, use_redis, pending, object, effects,
                       notRoutes>>

LogoutRequest(token) ==
    \E r \in {AdminLogout(Store, order, token)} :
        /\ active_sessions' = r.S.mem
        /\ redis' = r.S.rds
        /\ order' = Reorder(order, r.S.mem)
        /\ last' = Call("POST /admin/logout", token, GetSession(Store, token), r.ret)
        /\ UNCHANGED <<now, redisConfigured, redisUp, use_redis, issued, issuedAt,
                       pending, object, effects, notRoutes>>

RefreshRequest(token) ==
    \E r \in {RefreshSessionRoute(Store, order, token)} :
        /\ r.ret.status_code = "200" =>
              Cardinality(issued \cup {r.ret.new_token}) <= MaxTokens
        /\ active_sessions' = r.S.mem
        /\ redis' = r.S.rds
        /\ order' = Reorder(order, r.S.mem)
        /\ issued' = IF r.ret.status_code = "200"
                     THEN issued \cup {r.ret.new_token} ELSE issued
        /\ issuedAt' = IF r.ret.status_code = "200"
                       THEN Put(issuedAt, r.ret.new_token, now) ELSE issuedAt
        /\ last' = Call("POST /admin/refresh", token, GetSession(Store, token), r.ret)
        /\ UNCHANGED <<now, redisConfigured, redisUp, use_redis, pending, object, effects,
                       notRoutes>>

(* a guarded route that leaves the tokens handed out as they are *)
Guarded(op, token, r) ==
    /\ active_sessions' = r.S.mem
    /\ redis' = r.S.rds
    /\ order' = Reorder(order, r.S.mem)
    /\ effects' = effects \cup r.did
    /\ last' = Call(op, token, GetSession(Store, token), r.ret)
    /\ UNCHANGED <<now, redisConfigured, redisUp, use_redis, issued, issuedAt,
                   pending, object, notRoutes>>

SessionsInfoRequest(token) ==
    Guarded("GET /admin/sessions", token, GetSessionsInfo(Store, token))

ReloadConfigRequest(token) ==
    Guarded("GET /config/reload", token, ReloadConfig(Store, token))

TerminateAllRequest(token) ==
    \E r \in {TerminateAllSessions(Store, token)} :
        Guarded("POST /admin/sessions/terminate-all", token,
                [S |-> r.S, ret |-> r.ret,
                 did |-> IF r.ret.status_code = "200"
                         THEN {"cleanup_expired_sessions"} ELSE {}])

LoginRequestStep == \E u \in Usernames, p \in Passwords : LoginRequest(u, p)

LogoutRequestStep == \E token \in Presented : LogoutRequest(token)

RefreshRequestStep == \E token \in Presented : RefreshRequest(token)

SessionsInfoRequestStep == \E token \in Presented : SessionsInfoRequest(token)

ReloadConfigRequestStep == \E token \in Presented : ReloadConfigRequest(token)

TerminateAllRequestStep == \E token \in Presented : TerminateAllRequest(token)

NextRoutes ==
    \/ LoginRequestStep
    \/ LogoutRequestStep
    \/ RefreshRequestStep
    \/ SessionsInfoRequestStep
    \/ ReloadConfigRequestStep
    \/ TerminateAllRequestStep
    \/ Tick
    \/ RedisOutage
    \/ RedisRecovery

SpecRoutes == Init /\ [][NextRoutes]_vars

-----------------------------------------------------------------------------
(* The lifetime of the server process (src/app/main.py, lifespan): requests *)
(* while it runs, then the shutdown branch, after which nothing runs.  The  *)
(* sweep is called by the constructor (on the empty map), by the shutdown   *)
(* branch and by routes of an authenticated caller; no timer or background  *)
(* task calls it.  Only the clock advances on its own.                      *)

Running == last.op # "lifespan"

(* lifespan after the yield *)
Shutdown ==
    /\ Running
    /\ \E r \in {CleanupExpiredSessions(Store)} :
          /\ active_sessions' = r.S.mem
          /\ redis' = r.S.rds
          /\ last' = Call("lifespan", None, None, [count |-> r.ret])
    /\ UNCHANGED <<others, now, redisConfigured, redisUp, use_redis, issued, issuedAt,
                   pending, object>>

LifeTick == Running /\ Tick

NextLife ==
    \/ Running /\ AuthenticateStep
    \/ Running /\ ValidateSessionStep
    \/ Running /\ LogoutStep
    \/ Running /\ RefreshSessionStep
    \/ Running /\ TerminateAllSessionsStep
    \/ Running /\ RedisOutage
    \/ Running /\ RedisRecovery
    \/ LifeTick
    \/ Shutdown

SpecLife == Init /\ [][NextLife]_vars /\ WF_vars(LifeTick)

-----------------------------------------------------------------------------
(* The print layout (src/app/imaging/layout.py, PrintLayout.compose_layout). *)
(* An image is the sequence of the photos pasted on the blank canvas; the    *)
(* text overlay and the frame change pixels only.                            *)

(* at most MaxPhotos photos are passed *)
MaxPhotos == 2

(* the photo paths a caller passes; os.path.exists holds for PhotoFiles *)
PhotoPaths == {"photo_0.jpg", "missing.jpg"}

PhotoFiles == {"photo_0.jpg"}

(* self.templates: the grid template of the test fixture and a template of
   the single type; get_template returns None for any other name *)
Templates ==
    [strip_2x6 |-> [type |-> "grid", columns |-> 2, rows |-> 1],
     single |-> [type |-> "single", columns |-> 1, rows |-> 1]]

TemplateNames == {"strip_2x6", "single", "invalid"}

GetTemplate(template_name) ==
    IF template_name \in DOMAIN Templates THEN Templates[template_name] ELSE None

Exists(photo_path) == photo_path \in PhotoFiles

Min(a, b) == IF a < b THEN a ELSE b

(* _apply_grid_layout: the first columns * rows photos, those that exist *)
ApplyGridLayout(canvas, photos, template) ==
    canvas \o SelectSeq(SubSeq(photos, 1, Min(Len(photos), template.columns * template.rows)),
                        Exists)

(* _apply_single_layout: the canvas as it is when there is no photo ("not
   photo_path" holds for None, written "" here) *)
ApplySingleLayout(canvas, photo_path, template) ==
    IF photo_path = "" \/ ~Exists(photo_path)
    THEN canvas
    ELSE Append(canvas, photo_path)

(* the output path: int(time.time()) is the only part that tells two prints
   of one template apart *)
PrintPath(kind, template_name, timestamp) ==
    [dir |-> "data/prints", kind |-> kind, template_name |-> template_name,
     timestamp |-> timestamp]

(* compose_layout: the files of data/prints afterwards, the exception raised
   ("" when none is) and the returned pair of paths *)
ComposeLayout(files, photos, template_name) ==
    LET template == GetTemplate(template_name) IN
    IF template = None
    THEN [files |-> files, raised |-> "ValueError", ret |-> None]
    ELSE LET canvas == IF template.type = "grid"
                       THEN ApplyGridLayout(<<>>, photos, template)
                       ELSE IF template.type = "single"
                       THEN ApplySingleLayout(<<>>, IF photos # <<>> THEN photos[1] ELSE "",
                                              template)
                       ELSE <<>>
             canvas_path == PrintPath("print", template_name, IntSeconds(now))
             thumb_path == PrintPath("thumb", template_name, IntSeconds(now))
         IN  [files |-> Put(Put(files, canvas_path, canvas), thumb_path,
                            <<"thumbnail", canvas>>),
              raised |-> "", ret |-> <<canvas_path, thumb_path>>]

PhotoLists == UNION {[1..n -> PhotoPaths] : n \in 0..MaxPhotos}

DoComposeLayout(photos, template_name) ==
    \E r \in {ComposeLayout(prints, photos, template_name)} :
        /\ prints' = r.files
        /\ last' = Call("compose_layout",
                        [photos |-> photos, template_name |-> template_name], None,
                        [raised |-> r.raised, ret |-> r.ret])
        /\ UNCHANGED <<sessions, now, notLayout>>

ComposeLayoutStep ==
    \E photos \in PhotoLists, template_name \in TemplateNames :
        DoComposeLayout(photos, template_name)

NextLayout ==
    \/ ComposeLayoutStep
    \/ Tick

SpecLayout == Init /\ [][NextLayout]_vars

-----------------------------------------------------------------------------
(* The print route and its rate limit (src/app/routes/printing.py).  The     *)
(* clock is the one of the sessions, in half seconds; here it advances in    *)
(* strides, so that a minute passes within the time bound.                   *)

print_rate_limit == 5

print_rate_window == 60

(* print_rate_window in units of the clock *)
WindowTicks == 2 * print_rate_window

(* the clock advances by PrintStride seconds, up to MaxPrintTime seconds *)
PrintStride == 30

MaxPrintTime == 60

(* request.client.host *)
Clients == {"10.0.0.1", "10.0.0.2"}

(* the print requests: a photo path and a number of copies *)
PrintRequests == [photo_path : {"photo.jpg"}, copies : {0, 1}]

CheckPrintRateLimit_RecordsRejected(attempts, client_ip, current_time) ==
    LET Recent(t) == current_time - t < WindowTicks
        kept == IF client_ip \in DOMAIN attempts
                THEN SelectSeq(attempts[client_ip], Recent)
                ELSE <<>>
    IN  [attempts |-> Put(attempts, client_ip, Append(kept, current_time)),
         ret |-> Len(kept) < print_rate_limit]

(* check_print_rate_limit: print_attempts afterwards and the returned bool *)
CheckPrintRateLimit(attempts, client_ip, current_time) ==
    LET Recent(t) == current_time - t < WindowTicks
        kept == IF client_ip \in DOMAIN attempts
                THEN SelectSeq(attempts[client_ip], Recent)
                ELSE <<>>
    IN  IF Len(kept) >= print_rate_limit
        THEN [attempts |-> Put(attempts, client_ip, kept), ret |-> FALSE]
        ELSE [attempts |-> Put(attempts, client_ip, Append(kept, current_time)),
              ret |-> TRUE]

(* POST /print/photo: print_attempts afterwards, the answer, and whether
   printer_mgr.print_photo was called; success is what the printer returns *)
PrintPhotoRoute(attempts, client_ip, request, success) ==
    LET allowed == CheckPrintRateLimit(attempts, client_ip, now) IN
    IF ~allowed.ret
    THEN [attempts |-> allowed.attempts, printer_called |-> FALSE,
          ret |-> HTTPException("429", "Trop de demandes d'impression")]
    ELSE IF request.photo_path = ""
    THEN [attempts |-> allowed.attempts, printer_called |-> FALSE,
          ret |-> HTTPException("400", "Chemin de la photo requis")]
    ELSE IF request.copies < 1 \/ request.copies > 10
    THEN [attempts |-> allowed.attempts, printer_called |-> FALSE,
          ret |-> HTTPException("400", "Nombre de copies invalide (1-10)")]
    ELSE [attempts |-> allowed.attempts, printer_called |-> TRUE,
          ret |-> [status_code |-> "200",
                   detail |-> IF success THEN "Impression lancee avec succes"
                              ELSE "Echec de l'impression"]]

DoPrintPhoto(client_ip, request, success) ==
    \E r \in {PrintPhotoRoute(print_attempts, client_ip, request, success)} :
        /\ print_attempts' = r.attempts
        /\ accepted' = IF r.ret.status_code = "429"
                       THEN accepted
                       ELSE Put(accepted, client_ip,
                                Append(IF client_ip \in DOMAIN accepted
                                       THEN accepted[client_ip] ELSE <<>>, now))
        /\ last' = Call("POST /print/photo", client_ip, None,
                        [status_code |-> r.ret.status_code,
                         printer_called |-> r.printer_called])
        /\ UNCHANGED <<sessions, now, notPrinting>>

PrintPhotoStep ==
    \E client_ip \in Clients, request \in PrintRequests, success \in BOOLEAN :
        DoPrintPhoto(client_ip, request, success)

PrintTick ==
    /\ now < 2 * MaxPrintTime
    /\ now' = now + 2 * PrintStride
    /\ last' = NoCall
    /\ UNCHANGED <<sessions, others>>

NextPrint ==
    \/ PrintPhotoStep
    \/ PrintTick

SpecPrint == Init /\ [][NextPrint]_vars

-----------------------------------------------------------------------------
(* The printer (src/app/printing/printer.py, PrinterManager.print_photo),    *)
(* statement by statement.  A platform print call returns a result or        *)
(* raises; that it returns at all is assumed (lpr and ShellExecute hand the  *)
(* file to the spooler).                                                     *)

(* retry_attempts is configured between 1 and MaxRetryAttempts *)
MaxRetryAttempts == 3

(* WINDOWS_AVAILABLE, else LPR_AVAILABLE, else neither *)
Platforms == {"windows", "unix", "none"}

Result(success, error) == [success |-> success, error |-> error]

AllAttemptsFailed == Result(FALSE, "Echec de l'impression apres toutes les tentatives")

(* PrinterManager.__init__ *)
PrinterManagerInit(platform, retry_attempts) ==
    /\ job.pc = "unbuilt"
    /\ job' = Job("idle", platform, retry_attempts, 0, "image", <<>>, None)
    /\ UNCHANGED <<sessions, now, last, notPrinter>>

(* print_photo up to the loop: the three early returns, and the prepared
   image *)
PrintPhotoCall(precheck, prepared) ==
    /\ job.pc = "idle"
    /\ job' = IF precheck = "ok"
              THEN [job EXCEPT !.pc = "for", !.attempt = 0, !.prepared = prepared,
                               !.trace = <<>>, !.ret = None]
              ELSE [job EXCEPT !.pc = "done", !.attempt = 0, !.trace = <<>>,
                               !.ret = Result(FALSE, precheck)]
    /\ UNCHANGED <<sessions, now, last, notPrinter>>

(* for attempt in range(self.retry_attempts); after the loop the temporary
   file is removed and the all-attempts-failed result returned *)
ForNext ==
    /\ job.pc = "for"
    /\ job' = IF job.attempt < job.retry_attempts
              THEN [job EXCEPT !.pc = "try"]
              ELSE [job EXCEPT !.pc = "done",
                               !.prepared = IF @ = "temp" THEN "removed" ELSE @,
                               !.ret = AllAttemptsFailed]
    /\ UNCHANGED <<sessions, now, last, notPrinter>>

(* the try body: the platform print call and the test of its result *)
TryPrint(outcome) ==
    /\ job.pc = "try"
    /\ job' = IF job.platform = "none"
              THEN [job EXCEPT !.pc = "done",
                               !.ret = Result(FALSE, "Aucune methode d'impression disponible")]
              ELSE IF outcome = "success"
              THEN [job EXCEPT !.pc = "done", !.trace = Append(@, "print:success"),
                               !.ret = Result(TRUE, "")]
              ELSE [job EXCEPT !.pc = "failed", !.trace = Append(@, "print:" \o outcome)]
    /\ UNCHANGED <<sessions, now, last, notPrinter>>

AfterFailure_SleepsAlways ==
    /\ job.pc = "failed"
    /\ job' = [job EXCEPT !.pc = "for", !.attempt = @ + 1, !.trace = Append(@, "sleep")]
    /\ UNCHANGED <<sessions, now, last, notPrinter>>

(* after a failed result or an exception: time.sleep(self.retry_delay) when
   another attempt follows, then the next iteration *)
AfterFailure ==
    /\ job.pc = "failed"
    /\ job' = IF job.attempt < job.retry_attempts - 1
              THEN [job EXCEPT !.pc = "for", !.attempt = @ + 1,
                               !.trace = Append(@, "sleep")]
              ELSE [job EXCEPT !.pc = "for", !.attempt = @ + 1]
    /\ UNCHANGED <<sessions, now, last, notPrinter>>

(* the caller has the result; the manager is ready for the next call *)
PrintPhotoReturn ==
    /\ job.pc = "done"
    /\ job' = [job EXCEPT !.pc = "idle", !.attempt = 0, !.prepared = "image",
                          !.trace = <<>>, !.ret = None]
    /\ UNCHANGED <<sessions, now, last, notPrinter>>

PrinterManagerInitStep ==
    \E platform \in Platforms, retry_attempts \in 1..MaxRetryAttempts :
        PrinterManagerInit(platform, retry_attempts)

PrintPhotoCallStep ==
    \E precheck \in {"ok", "Fichier image introuvable", "Nombre de copies invalide",
                     "Impossible de preparer l'image pour l'impression"},
       prepared \in {"image", "temp"} :
        PrintPhotoCall(precheck, prepared)

TryPrintStep == \E outcome \in {"success", "failure", "exception"} : TryPrint(outcome)

(* the statements of a call under way *)
PrinterRun == ForNext \/ TryPrintStep \/ AfterFailure

NextPrinter ==
    \/ PrinterManagerInitStep
    \/ PrintPhotoCallStep
    \/ ForNext
    \/ TryPrintStep
    \/ AfterFailure
    \/ PrintPhotoReturn

SpecPrinter == Init /\ [][NextPrinter]_vars /\ WF_vars(PrinterRun)

-----------------------------------------------------------------------------
(* The frames routes (src/app/routes/frames.py).  A route loads              *)
(* config/frames.json, changes the list and saves it without awaiting in     *)
(* between.  A save that fails leaves the file as it was or, having opened   *)
(* it for writing, cut short, which the next load reads as no frames.        *)

(* at most MaxFrames frames exist at a time *)
MaxFrames == 2

(* str(uuid.uuid4()) *)
FrameIds == {"uuid-1", "uuid-2", "uuid-3"}

FrameData(id, active) == [id |-> id, filename |-> id \o ".png", active |-> active]

(* save_frames_config: the file afterwards and the returned bool *)
SaveFramesConfig(file, config, outcome) ==
    IF outcome = "saved" THEN [file |-> config, ret |-> TRUE]
    ELSE IF outcome = "not opened" THEN [file |-> file, ret |-> FALSE]
    ELSE [file |-> <<>>, ret |-> FALSE]

SaveOutcomes == {"saved", "not opened", "cut short"}

(* for frame in config["frames"]: frame["active"] = False *)
Deactivated(frames) == [i \in DOMAIN frames |-> [frames[i] EXCEPT !.active = FALSE]]

(* next((f for f in config["frames"] if f["id"] == frame_id), None), as the
   set of the positions of the first match *)
FindFrame(frames, frame_id) ==
    {i \in DOMAIN frames :
        /\ frames[i].id = frame_id
        /\ \A j \in 1..(i - 1) : frames[j].id # frame_id}

(* the ids of the active frames *)
ActiveIds(frames) == {frames[i].id : i \in {j \in DOMAIN frames : frames[j].active}}

(* POST /admin/frames/ *)
CreateFrame(file, files, current_admin, is_png, frame_id, active, outcome) ==
    IF ~current_admin
    THEN [file |-> file, files |-> files, ret |-> HTTPException("401", "Non authentifie")]
    ELSE IF ~is_png
    THEN [file |-> file, files |-> files,
          ret |-> HTTPException("400", "Seuls les fichiers PNG sont acceptes")]
    ELSE LET frame_data == FrameData(frame_id, active)
             config == Append(IF active THEN Deactivated(file) ELSE file, frame_data)
             saved == SaveFramesConfig(file, config, outcome)
         IN  IF ~saved.ret
             THEN [file |-> saved.file, files |-> files \ {frame_data.filename},
                   ret |-> HTTPException("500",
                               "Erreur lors de la sauvegarde de la configuration")]
             ELSE [file |-> saved.file, files |-> files \cup {frame_data.filename},
                   ret |-> [status_code |-> "200", detail |-> frame_id]]

ToggleFrameActive_KeepsOthers(file, current_admin, frame_id, outcome) ==
    IF ~current_admin
    THEN [file |-> file, ret |-> HTTPException("401", "Non authentifie")]
    ELSE IF FindFrame(file, frame_id) = {}
    THEN [file |-> file, ret |-> HTTPException("404", "Cadre non trouve")]
    ELSE LET config == [i \in DOMAIN file |->
                           IF i \in FindFrame(file, frame_id)
                           THEN [file[i] EXCEPT !.active = TRUE]
                           ELSE file[i]]
             saved == SaveFramesConfig(file, config, outcome)
         IN  IF ~saved.ret
             THEN [file |-> saved.file,
                   ret |-> HTTPException("500",
                               "Erreur lors de la sauvegarde de la configuration")]
             ELSE [file |-> saved.file,
                   ret |-> [status_code |-> "200", detail |-> "Cadre active avec succes"]]

(* POST /admin/frames/{frame_id}/toggle *)
ToggleFrameActive(file, current_admin, frame_id, outcome) ==
    IF ~current_admin
    THEN [file |-> file, ret |-> HTTPException("401", "Non authentifie")]
    ELSE IF FindFrame(file, frame_id) = {}
    THEN [file |-> file, ret |-> HTTPException("404", "Cadre non trouve")]
    ELSE LET config == [i \in DOMAIN file |->
                           IF i \in FindFrame(file, frame_id)
                           THEN [Deactivated(file)[i] EXCEPT !.active = TRUE]
                           ELSE Deactivated(file)[i]]
             saved == SaveFramesConfig(file, config, outcome)
         IN  IF ~saved.ret
             THEN [file |-> saved.file,
                   ret |-> HTTPException("500",
                               "Erreur lors de la sauvegarde de la configuration")]
             ELSE [file |-> saved.file,
                   ret |-> [status_code |-> "200", detail |-> "Cadre active avec succes"]]

(* DELETE /admin/frames/{frame_id} *)
DeleteFrame(file, files, current_admin, frame_id, outcome) ==
    IF ~current_admin
    THEN [file |-> file, files |-> files, ret |-> HTTPException("401", "Non authentifie")]
    ELSE IF FindFrame(file, frame_id) = {}
    THEN [file |-> file, files |-> files, ret |-> HTTPException("404", "Cadre non trouve")]
    ELSE LET Others(f) == f.id # frame_id
             frame == file[CHOOSE i \in FindFrame(file, frame_id) : TRUE]
             saved == SaveFramesConfig(file, SelectSeq(file, Others), outcome)
         IN  IF ~saved.ret
             THEN [file |-> saved.file, files |-> files \ {frame.filename},
                   ret |-> HTTPException("500",
                               "Erreur lors de la sauvegarde de la configuration")]
             ELSE [file |-> saved.file, files |-> files \ {frame.filename},
                   ret |-> [status_code |-> "200", detail |-> "Cadre supprime avec succes"]]

DoCreateFrame(current_admin, is_png, frame_id, active, outcome) ==
    /\ Len(frames_config) < MaxFrames
    /\ frame_id \notin {frames_config[i].id : i \in DOMAIN frames_config}
    /\ FrameData(frame_id, active).filename \notin frame_files
    /\ \E r \in {CreateFrame(frames_config, frame_files, current_admin, is_png, frame_id,
                             active, outcome)} :
          /\ frames_config' = r.file
          /\ frame_files' = r.files
          /\ last' = Call("create_frame", frame_id, ActiveIds(frames_config), r.ret)
    /\ UNCHANGED <<sessions, now, notFrames>>

DoToggleFrameActive(current_admin, frame_id, outcome) ==
    /\ \E r \in {ToggleFrameActive(frames_config, current_admin, frame_id, outcome)} :
          /\ frames_config' = r.file
          /\ last' = Call("toggle_frame_active", frame_id, ActiveIds(frames_config), r.ret)
    /\ UNCHANGED <<sessions, now, notFrames, frame_files>>

DoDeleteFrame(current_admin, frame_id, outcome) ==
    /\ \E r \in {DeleteFrame(frames_config, frame_files, current_admin, frame_id, outcome)} :
          /\ frames_config' = r.file
          /\ frame_files' = r.files
          /\ last' = Call("delete_frame", frame_id, ActiveIds(frames_config), r.ret)
    /\ UNCHANGED <<sessions, now, notFrames>>

CreateFrameStep ==
    \E current_admin \in BOOLEAN, is_png \in BOOLEAN, frame_id \in FrameIds,
       active \in BOOLEAN, outcome \in SaveOutcomes :
        DoCreateFrame(current_admin, is_png, frame_id, active, outcome)

ToggleFrameActiveStep ==
    \E current_admin \in BOOLEAN, frame_id \in FrameIds, outcome \in SaveOutcomes :
        DoToggleFrameActive(current_admin, frame_id, outcome)

DeleteFrameStep ==
    \E current_admin \in BOOLEAN, frame_id \in FrameIds, outcome \in SaveOutcomes :
        DoDeleteFrame(current_admin, frame_id, outcome)

NextFrames ==
    \/ CreateFrameStep
    \/ ToggleFrameActiveStep
    \/ DeleteFrameStep

SpecFrames == Init /\ [][NextFrames]_vars

-----------------------------------------------------------------------------
(* Properties *)

(* the time the login or refresh that minted the token ran: its payload's
   expires_at less the session timeout *)
IssuedAt(token) == JsonLoads(token.payload).expires_at - TimeoutTicks

(* C1: a successful login followed at once by validate_session on the token
   it returned yields a record whose username is the submitted one. *)
C1_LoginThenValidate ==
    [][\A token \in issued :
          (/\ last.op = "authenticate"
           /\ last'.op = "validate_session"
           /\ last.ret.success
           /\ last.ret.token = token
           /\ DoValidateSession(token))
          => (/\ last'.ret # None
              /\ last'.ret.username = last.arg.username)]_vars

(* validate_session has returned the record of a login made at this very
   clock reading *)
C1_Witness ==
    /\ last.op = "validate_session"
    /\ last.ret # None
    /\ last.ret.username = AdminUsername
    /\ last.ret.login_time = now
    /\ last.arg \in issued

(* C2 (as claimed): once logout has removed the live record of a token, the
   next validate_session on it, with the store reachable, returns absent and
   leaves no record under the token. *)
C2_RevokedStaysRevoked ==
    [][\A token \in issued :
          (/\ last.op = "logout"
           /\ last.arg = token
           /\ last.pre # None
           /\ now <= last.pre.expires_at
           /\ (use_redis => redisUp)
           /\ DoValidateSession(token))
          => (/\ last'.ret = None
              /\ token \notin DOMAIN active_sessions'
              /\ GetSessionKey(token) \notin DOMAIN redis')]_vars

(* C3 (as claimed): once refresh_session has replaced a token by a different
   one, validate_session on the old token returns absent. *)
C3_OldTokenInvalidated ==
    [][\A token \in issued :
          (/\ last.op = "refresh_session"
           /\ last.arg = token
           /\ last.ret # None
           /\ last.ret # token
           /\ DoValidateSession(token))
          => last'.ret = None]_vars

(* C4 (as claimed): on a token whose stored record has now > expires_at,
   validate_session returns absent, and refresh_session returns None, hands
   out no token and writes no record. *)
C4_ExpiredIsDead ==
    [][\A token \in issued :
          (/\ GetSession(Store, token) # None
           /\ now > GetSession(Store, token).expires_at)
          => (/\ DoValidateSession(token) => last'.ret = None
              /\ DoRefreshSession(token) =>
                    (/\ last'.ret = None
                     /\ issued' = issued
                     /\ DOMAIN active_sessions' \subseteq DOMAIN active_sessions
                     /\ DOMAIN redis' \subseteq DOMAIN redis))]_vars

(* C5 (as claimed): validate_session accepts a token exactly when
   now < issuedAt + sessionTimeout. *)
C5_RejectedFromTimeout ==
    (last.op = "validate_session" /\ last.arg \in issued)
    => (last.ret # None <=> now < IssuedAt(last.arg) + TimeoutTicks)

(* C5 (amended): with a record in the store, validate_session accepts the
   token exactly when now <= expires_at = issuedAt + sessionTimeout; with no
   record, exactly when the whole seconds elapsed since the signing time are
   at most sessionTimeout. *)
C5_AcceptedThroughTimeout ==
    (last.op = "validate_session" /\ last.arg \in issued)
    => (last.ret # None <=>
          IF last.pre # None
          THEN now <= IssuedAt(last.arg) + TimeoutTicks
          ELSE IntSeconds(now) - IntSeconds(IssuedAt(last.arg)) <= SessionTimeout)

(* validate_session has accepted a token from its store record at exactly
   issuedAt + sessionTimeout *)
C5_Witness ==
    /\ last.op = "validate_session"
    /\ last.pre # None
    /\ last.ret # None
    /\ now = IssuedAt(last.arg) + TimeoutTicks

(* C6: authenticate with credentials other than the configured ones returns
   failure with no token and leaves both backends as they were. *)
C6_BadCredentialsRejected ==
    [][\A u \in Usernames, p \in Passwords :
          (/\ ~(u = AdminUsername /\ Hash(p) = AdminPasswordHash)
           /\ last'.op = "authenticate"
           /\ DoAuthenticate(u, p))
          => (/\ last'.ret.success = FALSE
              /\ last'.ret.token = None
              /\ active_sessions' = active_sessions
              /\ redis' = redis)]_vars

(* authenticate has refused the right username with a wrong password while a
   session was stored *)
C6_Witness ==
    /\ last.op = "authenticate"
    /\ last.arg.username = AdminUsername
    /\ Hash(last.arg.password) # AdminPasswordHash
    /\ ~last.ret.success
    /\ (DOMAIN active_sessions) \cup (DOMAIN redis) # {}

(* C7 (as claimed): logout returns success exactly when a record stood under
   the token, and the not-found result exactly when none did. *)
C7_LogoutReportsRemoval ==
    last.op = "logout" =>
        /\ (last.ret = LogoutResponse(TRUE, "Deconnexion reussie")) <=> (last.pre # None)
        /\ (last.ret = LogoutResponse(FALSE, "Session non trouvee")) <=> (last.pre = None)

(* C8: with the in-process map as the backend, cleanup_expired_sessions
   removes exactly the records with expires_at < now, leaves the others as
   they were and returns the number removed; a second call right after it
   returns 0 and removes nothing. *)
C8_SweepExact ==
    [][(~use_redis /\ last'.op = "cleanup_expired_sessions" /\ DoCleanupExpiredSessions)
          => LET gone == {tk \in DOMAIN active_sessions : active_sessions[tk].expires_at < now}
             IN  /\ DOMAIN active_sessions' = (DOMAIN active_sessions) \ gone
                 /\ \A tk \in DOMAIN active_sessions' : active_sessions'[tk] = active_sessions[tk]
                 /\ last'.ret.count = Cardinality(gone)
                 /\ (CleanupExpiredSessions(Store).ret)' = 0
                 /\ (CleanupExpiredSessions(Store).S)' = Store']_vars

(* the sweep has removed a record and kept another *)
C8_Witness ==
    /\ ~use_redis
    /\ last.op = "cleanup_expired_sessions"
    /\ last.ret.count > 0
    /\ DOMAIN active_sessions # {}

(* C9 (as claimed): while Redis is in use and unreachable, authenticate with
   the right credentials, validate_session on a live in-process record and
   logout of an in-process record each return their success result. *)
C9_OutageTransparent ==
    [][(use_redis /\ ~redisUp)
          => (/\ DoAuthenticate(AdminUsername, "secret") => last'.ret.success
              /\ \A token \in DOMAIN active_sessions :
                    /\ (now <= active_sessions[token].expires_at /\ DoValidateSession(token))
                          => last'.ret # None
                    /\ DoLogout(token) => last'.ret.success)]_vars

(* C10 (as claimed): whenever Redis is configured and reachable at the time
   of a login, the session is written to Redis. *)
C10_BackendChosenPerCall ==
    [][(/\ redisConfigured
        /\ redisUp
        /\ DoAuthenticate(AdminUsername, "secret"))
          => GetSessionKey(last'.ret.token) \in DOMAIN redis']_vars

(* C11: validate_session on a token with no store record re-admits it from
   the signed token: when the signature verifies and the whole seconds since
   signing are at most sessionTimeout, the decoded record is put in the store
   under the token and returned; otherwise absent is returned and both
   backends stay as they were. *)
C11_FallbackReadmits ==
    [][\A token \in Presented :
          (/\ last'.op = "validate_session"
           /\ GetSession(Store, token) = None
           /\ DoValidateSession(token))
          => IF token.sig = "ok" /\ IntSeconds(now) - token.ts <= SessionTimeout
             THEN /\ last'.ret = JsonLoads(token.payload)
                  /\ (GetSession(Store, token))' = JsonLoads(token.payload)
             ELSE /\ last'.ret = None
                  /\ active_sessions' = active_sessions
                  /\ redis' = redis]_vars

(* validate_session has re-admitted a token that had no store record, at a
   later clock reading than the one it was minted at *)
C11_Witness ==
    /\ last.op = "validate_session"
    /\ last.arg \in issued
    /\ last.pre = None
    /\ last.ret # None
    /\ now > IssuedAt(last.arg)
    /\ GetSession(Store, last.arg) = last.ret

(* C12: validate_session on a token whose store record has now > expires_at
   returns absent and removes that record and no other; on a token whose
   record is live it returns the record and leaves both backends as they
   were. *)
C12_ExpiredRecordRemoved ==
    [][\A token \in issued :
          (/\ last'.op = "validate_session"
           /\ GetSession(Store, token) # None
           /\ DoValidateSession(token))
          => IF now > GetSession(Store, token).expires_at
             THEN /\ last'.ret = None
                  /\ (GetSession(Store, token))' = None
                  /\ \A other \in issued \ {token} :
                         (GetSession(Store, other))' = GetSession(Store, other)
             ELSE /\ last'.ret = GetSession(Store, token)
                  /\ active_sessions' = active_sessions
                  /\ redis' = redis]_vars

(* validate_session has refused a token on its expired record and removed
   it, while another record stayed *)
C12_Witness ==
    /\ last.op = "validate_session"
    /\ last.pre # None
    /\ now > last.pre.expires_at
    /\ last.ret = None
    /\ GetSession(Store, last.arg) = None
    /\ (DOMAIN active_sessions) \cup (DOMAIN redis) # {}

(* C13: a refresh_session that mints a token different from the old one
   stores the record under the new token before it deletes the old one: in
   every store it goes through at least one of the two tokens has a record,
   in one of them both have, and in the store it ends in the new token has a
   record and the old one has none. *)
C13_WriteNewThenDeleteOld ==
    [][\A token \in issued :
          (/\ last'.op = "refresh_session"
           /\ DoRefreshSession(token)
           /\ last'.ret # None
           /\ last'.ret # token)
          => LET st == RefreshSessionStates(Store, token)
                 new_token == last'.ret
             IN  /\ st[1] = Store
                 /\ st[Len(st)] = Store'
                 /\ \A i \in 1..Len(st) :
                        \/ GetSession(st[i], token) # None
                        \/ GetSession(st[i], new_token) # None
                 /\ \E i \in 1..Len(st) :
                        /\ GetSession(st[i], token) # None
                        /\ GetSession(st[i], new_token) # None
                 /\ GetSession(st[Len(st)], new_token) # None
                 /\ GetSession(st[Len(st)], token) = None]_vars

(* refresh_session has replaced a token by a different one *)
C13_Witness ==
    /\ last.op = "refresh_session"
    /\ last.ret # None
    /\ last.ret # last.arg
    /\ GetSession(Store, last.ret) # None
    /\ GetSession(Store, last.arg) = None

(* the keys a refresh_session call may write: the old token, the new one,
   and in the in-process map the keys bound to the dict it holds *)
Touched(c) ==
    {pending[c].token, pending[c].new_token}
        \cup (IF pending[c].ref = None THEN {}
              ELSE {k \in DOMAIN active_sessions : ObjOf(k) = pending[c].ref})

SameRecord(k) ==
    /\ (k \in DOMAIN active_sessions') <=> (k \in DOMAIN active_sessions)
    /\ k \in DOMAIN active_sessions => active_sessions'[k] = active_sessions[k]
    /\ (GetSessionKey(k) \in DOMAIN redis') <=> (GetSessionKey(k) \in DOMAIN redis)
    /\ GetSessionKey(k) \in DOMAIN redis => redis'[GetSessionKey(k)] = redis[GetSessionKey(k)]

(* C14 (as claimed): when two refresh_session calls on the same live token
   have both returned, each has returned a token that has a live record, and
   the old token has no record. *)
C14_EachCallReturnsLiveToken ==
    (\A c \in Callers :
        /\ pending[c].pc = "done"
        /\ pending[c].live
        /\ pending[c].ret # pending[c].token)
    => \A c \in Callers :
          /\ pending[c].ret # None
          /\ Live(GetSession(Store, pending[c].ret))
          /\ GetSession(Store, pending[c].token) = None

(* C14 (amended): of two refresh_session calls on the same token, taken
   statement by statement in any order, a call that finds no record under
   the token returns None and writes nothing; a call that found one returns
   the token it minted, which (when it differs from the old one) has a live
   record, and leaves no record under the old token; deleting the old token
   when it is already gone changes nothing; and no statement changes the
   record of a token the call does not hold. *)
C14_RacingRefreshes ==
    [][\A c \in Callers :
          /\ (/\ pending[c].pc = "get"
              /\ GetSession(Store, pending[c].token) = None
              /\ RefreshGet(c))
             => (/\ pending'[c].pc = "done"
                 /\ pending'[c].ret = None
                 /\ active_sessions' = active_sessions
                 /\ redis' = redis
                 /\ issued' = issued)
          /\ (pending[c].pc = "delete" /\ RefreshDelete(c))
             => (/\ pending'[c].pc = "done"
                 /\ pending'[c].ret = pending[c].new_token
                 /\ GetSession(Store, pending[c].token) = None
                       => (active_sessions' = active_sessions /\ redis' = redis)
                 /\ pending[c].new_token # pending[c].token
                       => (/\ (Live(GetSession(Store, pending[c].new_token)))'
                           /\ (GetSession(Store, pending[c].token))' = None))
          /\ (/\ pending[c].pc \in {"set", "store", "delete"}
              /\ (RefreshSet(c) \/ RefreshStore(c) \/ RefreshDelete(c)))
             => \A k \in issued \ Touched(c) : SameRecord(k)]_vars

(* two calls on one live token have both returned, each with a token of its
   own that has a live record, and the old token has none *)
C14_Witness ==
    /\ \A c \in Callers : pending[c].pc = "done" /\ pending[c].live
    /\ pending["A"].ret # None
    /\ pending["B"].ret # None
    /\ pending["A"].ret # pending["B"].ret
    /\ \A c \in Callers : Live(GetSession(Store, pending[c].ret))
    /\ GetSession(Store, pending["A"].token) = None

(* the credentials authenticate refuses *)
BadCredentials ==
    {cr \in [username : Usernames, password : Passwords] :
        ~(cr.username = AdminUsername /\ Hash(cr.password) = AdminPasswordHash)}

(* C15: the response of authenticate to refused credentials is a failure
   with no token, and it is the response every other refused pair gets in
   the same state, whichever of the two fields is wrong. *)
C15_FailureIsUniform ==
    [][\A cr \in BadCredentials :
          (/\ last'.op = "authenticate"
           /\ last'.arg = cr
           /\ DoAuthenticate(cr.username, cr.password))
          => (/\ last'.ret.success = FALSE
              /\ last'.ret.token = None
              /\ \A other \in BadCredentials :
                     Authenticate(Store, other).ret = last'.ret)]_vars

(* authenticate has refused a wrong username given with the right password *)
C15_Witness ==
    /\ last.op = "authenticate"
    /\ last.arg.username # AdminUsername
    /\ Hash(last.arg.password) = AdminPasswordHash
    /\ ~last.ret.success

(* the value a handler hands back has the shape its signature declares:
   LoginResponse, Optional[Dict], LogoutResponse, Optional[str], int *)
Returned(op, ret) ==
    CASE op = "authenticate" ->
            /\ DOMAIN ret = {"success", "message", "token"}
            /\ ret.success \in BOOLEAN
            /\ ret.success <=> ret.token # None
      [] op = "validate_session" ->
            ret = None \/ DOMAIN ret = {"username", "login_time", "expires_at"}
      [] op = "logout" ->
            DOMAIN ret = {"success", "message"} /\ ret.success \in BOOLEAN
      [] op = "refresh_session" ->
            ret = None \/ DOMAIN ret = {"payload", "ts", "sig"}
      [] op = "cleanup_expired_sessions" ->
            DOMAIN ret = {"count"} /\ ret.count \in Nat
      [] op = "terminate_all_sessions" ->
            ret.status_code \in {"200", "401"}
      [] OTHER -> FALSE

(* the signer refuses the token: BadSignature or SignatureExpired *)
CodecRefuses(token) ==
    token.sig # "ok" \/ IntSeconds(now) - token.ts > SessionTimeout

(* C16: every call of authenticate, validate_session, refresh_session,
   logout and cleanup_expired_sessions hands back a value of its declared
   shape, with Redis reachable or failing, for issued tokens and for one that
   was never issued; validate_session on a token the signer refuses (bad
   signature, or signed longer ago than sessionTimeout) returns absent, as it
   does for a token that was never issued. *)
C16_NeverRaises ==
    /\ last.op # "none" => Returned(last.op, last.ret)
    /\ (last.op = "validate_session" /\ CodecRefuses(last.arg)) => last.ret = None
    /\ ValidateSession(Store, ForgedToken) = [S |-> Store, ret |-> None]
    /\ RefreshSession(Store, ForgedToken) = [S |-> Store, ret |-> None]
    /\ Returned("logout", Logout(Store, ForgedToken).ret)

(* with Redis failing, validate_session has returned absent for an issued
   token that had no record and was signed longer ago than sessionTimeout *)
C16_Witness ==
    /\ use_redis /\ ~redisUp
    /\ last.op = "validate_session"
    /\ last.arg \in issued
    /\ last.pre = None
    /\ CodecRefuses(last.arg)
    /\ last.ret = None

(* C17 (as claimed): a terminate-all request of an authenticated caller
   leaves no record under any issued token and an empty list of active
   sessions, and reports the number of records there were. *)
C17_TerminateAllEmptiesStore ==
    [][\A token \in issued :
          (/\ last'.op = "terminate_all_sessions"
           /\ DoTerminateAllSessions(token)
           /\ last'.ret.status_code = "200")
          => (/\ \A k \in issued : (GetSession(Store, k))' = None
              /\ (GetActiveSessions(Store))' = {}
              /\ last'.ret.terminated_count =
                     Cardinality({k \in issued : GetSession(Store, k) # None}))]_vars

(* C18 (as claimed): with the in-process map as the backend,
   get_active_sessions_count is the number of tokens whose record is there
   and has not expired. *)
C18_CountIsLiveRecords ==
    ~use_redis =>
        GetActiveSessionsCount(Store) =
            Cardinality({k \in issued : Live(GetSession(Store, k))})

(* C19 (as claimed): with the in-process map as the backend, _get_session
   and get_session_info return absent for a token that was never inserted,
   for one whose record was removed and for one whose record has
   now > expires_at. *)
C19_GetChecksExpiry ==
    ~use_redis =>
        \A token \in Presented :
            (\/ token \notin DOMAIN active_sessions
             \/ now > active_sessions[token].expires_at)
            => (/\ GetSession(Store, token) = None
                /\ GetSessionInfo(Store, token) = None)

(* the records of both backends, by token *)
Records ==
    {[token |-> k, session_data |-> active_sessions[k]] : k \in DOMAIN active_sessions}
        \cup {[token |-> k, session_data |-> JsonLoads(redis[GetSessionKey(k)].json)] :
                 k \in {x \in issued : GetSessionKey(x) \in DOMAIN redis}}

(* C20: every record of either backend stands under a token a login or a
   refresh has minted, and its expires_at is the time of that login or
   refresh plus sessionTimeout. *)
C20_ExpiryIsIssuePlusTimeout ==
    \A rec \in Records :
        /\ rec.token \in DOMAIN issuedAt
        /\ rec.session_data.expires_at = issuedAt[rec.token] + TimeoutTicks

(* an old token has been re-admitted from its signature next to the record
   a refresh has produced, after a logout or a sweep *)
C20_Witness ==
    /\ last.op = "validate_session"
    /\ last.pre = None
    /\ last.ret # None
    /\ \E rec \in Records :
          /\ rec.token # last.arg
          /\ rec.session_data.login_time # issuedAt[rec.token]

(* C21 (as claimed): refresh_session leaves the record stored under the old
   token as it was until it deletes it: in every store the call goes
   through, the old token has either no record or the record it had when the
   call began. *)
C21_OldRecordUntouched ==
    [][\A token \in issued :
          (/\ last'.op = "refresh_session"
           /\ DoRefreshSession(token)
           /\ last'.ret # None)
          => LET st == RefreshSessionStates(Store, token)
             IN  \A i \in 1..Len(st) :
                    \/ GetSession(st[i], token) = None
                    \/ GetSession(st[i], token) = GetSession(Store, token)]_vars

(* C22: validate_session and logout on a token leave every other token's
   record, in both backends, as it was; refresh_session leaves every record
   but those of its token and of the token it returns; a successful login
   leaves every record but the one of the token it returns, stores that one,
   and returns a token never handed out before unless one was minted at this
   very clock reading. *)
C22_OtherTokensUntouched ==
    [][/\ \A token \in Presented :
             (/\ last'.op \in {"validate_session", "logout"}
              /\ (DoValidateSession(token) \/ DoLogout(token)))
             => \A k \in issued \ {token} : SameRecord(k)
       /\ \A token \in issued :
             (last'.op = "refresh_session" /\ DoRefreshSession(token))
             => \A k \in issued \ {token, last'.ret} : SameRecord(k)
       /\ (/\ last'.op = "authenticate"
           /\ DoAuthenticate(AdminUsername, "secret"))
          => (/\ \A k \in issued \ {last'.ret.token} :
                    /\ SameRecord(k)
                    /\ (GetSession(Store, k))' = GetSession(Store, k)
              /\ \E new_token \in {last'.ret.token} :
                    (GetSession(Store, new_token))' # None
              /\ (\A k \in issued : issuedAt[k] # now)
                    => last'.ret.token \notin issued)]_vars

(* a second login has added a record under a new token next to the live
   record of the first *)
C22_Witness ==
    /\ last.op = "authenticate"
    /\ last.ret.success
    /\ \E k \in issued \ {last.ret.token} :
          /\ Live(GetSession(Store, k))
          /\ GetSession(Store, k).username = last.arg.username
    /\ Live(GetSession(Store, last.ret.token))

(* C23 (as claimed): a guarded route called with a token that validates to no
   live session answers 401 and performs none of its side effects: the
   backends are as the validation left them and no sweep, configuration
   reload has run. *)
C23_UnauthenticatedIs401 ==
    [][\A token \in Presented :
          (/\ GetCurrentAdmin(Store, token).ret = None
           /\ last'.op \in {"GET /admin/sessions", "GET /config/reload",
                            "POST /admin/sessions/terminate-all"}
           /\ \/ SessionsInfoRequest(token)
              \/ ReloadConfigRequest(token)
              \/ TerminateAllRequest(token))
          => (/\ last'.ret.status_code = "401"
              /\ effects' = effects
              /\ Store' = GetCurrentAdmin(Store, token).S)]_vars

(* C26 (as claimed): the logout route removes the record of the token the
   authenticated caller presented and the refresh route rotates that token,
   under either backend; the records of the other tokens stay as they were. *)
C26_RoutesActOnPresentedToken ==
    [][\A token \in issued :
          GetCurrentAdmin(Store, token).ret # None
          => (/\ (last'.op = "POST /admin/logout" /\ LogoutRequest(token))
                    => (/\ (GetSession(Store, token))' = None
                        /\ \A k \in issued \ {token} : SameRecord(k))
              /\ (last'.op = "POST /admin/refresh" /\ RefreshRequest(token))
                    => (/\ last'.ret.status_code = "200"
                        /\ last'.ret.new_token # token
                              => (GetSession(Store, token))' = None
                        /\ \A k \in issued \ {token, last'.ret.new_token} :
                              SameRecord(k)))]_vars

(* every token a login or a refresh can mint within the time bound *)
Mintable ==
    {Dumps(SessionData(AdminUsername, lt, t + TimeoutTicks), t) :
        lt \in 0..MaxTime, t \in 0..MaxTime}

(* C24 (as claimed): every record of the in-process map whose expires_at has
   passed is eventually removed from the map, whether or not its token is
   presented again. *)
C24_ExpiredEventuallySwept ==
    \A token \in Mintable :
        (token \in DOMAIN active_sessions /\ now > active_sessions[token].expires_at)
            ~> (token \notin DOMAIN active_sessions)

(* C25 (as claimed): compose_layout raises ValueError when the template name
   is unknown and when the photo list is empty, and then writes no file to
   data/prints. *)
C25_RejectsBadInput ==
    [][\A photos \in PhotoLists, template_name \in TemplateNames :
          (/\ GetTemplate(template_name) = None \/ photos = <<>>
           /\ last'.op = "compose_layout"
           /\ DoComposeLayout(photos, template_name))
          => (/\ last'.ret.raised = "ValueError"
              /\ prints' = prints)]_vars

(* C27 (as claimed): a logout called while Redis is in use and unreachable
   leaves no record of the token in the in-process map and none in Redis that
   is still there at the next clock reading, when Redis can be reachable
   again; a logout called while Redis is reachable also removes the record
   an outage has put in the in-process map. *)
C27_RevocationSurvivesOutage ==
    [][\A token \in issued :
          (last'.op = "logout" /\ DoLogout(token))
          => (/\ (use_redis /\ ~redisUp)
                    => (/\ token \notin DOMAIN active_sessions'
                        /\ GetSessionKey(token) \notin DOMAIN RedisLive(redis', now + 1))
              /\ (use_redis /\ redisUp)
                    => token \notin DOMAIN active_sessions')]_vars

(* the requests of a client let through with a time in [from, to) *)
AcceptedIn(client_ip, from, to) ==
    IF client_ip \in DOMAIN accepted
    THEN Cardinality({i \in DOMAIN accepted[client_ip] :
                         from <= accepted[client_ip][i] /\ accepted[client_ip][i] < to})
    ELSE 0

(* C28: of the print requests of one client address, at most print_rate_limit
   are let through in any interval [w, w + print_rate_window) (it is enough
   to take for w the times of the requests let through); a request is
   answered 429 exactly when print_rate_limit requests of that client were
   let through less than print_rate_window ago, and then the printer is not
   called and the client's attempt list gets no new entry; a request of one
   client leaves the attempt lists of the others as they were. *)
C28_PrintRateLimit ==
    /\ [](\A client_ip \in DOMAIN accepted : \A i \in DOMAIN accepted[client_ip] :
             LET w == accepted[client_ip][i]
             IN  AcceptedIn(client_ip, w, w + WindowTicks) <= print_rate_limit)
    /\ [][\A client_ip \in Clients, request \in PrintRequests, success \in BOOLEAN :
             (last'.op = "POST /print/photo" /\ DoPrintPhoto(client_ip, request, success))
             => (/\ last'.ret.status_code = "429"
                       <=> AcceptedIn(client_ip, now - WindowTicks + 1, now + 1)
                              >= print_rate_limit
                 /\ last'.ret.status_code = "429"
                       => (/\ ~last'.ret.printer_called
                           /\ Len(print_attempts'[client_ip])
                                 <= Len(print_attempts[client_ip])
                           /\ accepted' = accepted)
                 /\ last'.ret.printer_called
                       => (/\ last'.ret.status_code = "200"
                           /\ request.copies >= 1)
                 /\ \A other \in Clients \ {client_ip} :
                       /\ other \in DOMAIN print_attempts' <=> other \in DOMAIN print_attempts
                       /\ other \in DOMAIN print_attempts
                             => print_attempts'[other] = print_attempts[other])]_vars

(* a client that had its five requests let through a window ago and five
   more now is refused, while the other client has been served *)
C28_Witness ==
    /\ last.op = "POST /print/photo"
    /\ last.ret.status_code = "429"
    /\ Len(accepted[last.arg]) > print_rate_limit
    /\ \E other \in Clients \ {last.arg} :
          /\ other \in DOMAIN accepted
          /\ AcceptedIn(other, now, now + 1) > 0

(* the platform print calls in a trace *)
PrintCalls(trace) ==
    Cardinality({i \in DOMAIN trace : trace[i] # "sleep"})

(* C29: a print_photo call makes at most retry_attempts platform print
   calls; it returns the first successful result and calls no more; it
   sleeps after a failed or raising attempt exactly when another attempt
   follows; it returns the all-attempts-failed result exactly after
   retry_attempts attempts that failed or raised; and, its platform calls
   returning, it ends. *)
C29_BoundedRetry ==
    /\ [](PrintCalls(job.trace) <= job.retry_attempts)
    /\ [](job.pc = "done" =>
            LET trace == job.trace
                n == Len(trace)
            IN  /\ job.ret.success
                      => (/\ n > 0
                          /\ trace[n] = "print:success"
                          /\ \A i \in 1..(n - 1) : trace[i] # "print:success")
                /\ job.ret = AllAttemptsFailed
                      <=> (/\ PrintCalls(trace) = job.retry_attempts
                           /\ \A i \in 1..n : trace[i] # "print:success")
                /\ \A i \in 1..n :
                      /\ trace[i] = "sleep"
                            => (/\ i > 1
                                /\ trace[i - 1] \in {"print:failure", "print:exception"}
                                /\ i < n
                                /\ trace[i + 1] # "sleep")
                      /\ (trace[i] \in {"print:failure", "print:exception"} /\ i < n)
                            => trace[i + 1] = "sleep")
    /\ (job.pc \in {"for", "try", "failed"}) ~> (job.pc = "done")

(* a call has returned the all-attempts-failed result after three attempts,
   one of which raised *)
C29_Witness ==
    /\ job.pc = "done"
    /\ job.ret = AllAttemptsFailed
    /\ job.retry_attempts = MaxRetryAttempts
    /\ \E i \in DOMAIN job.trace : job.trace[i] = "print:exception"
    /\ \E i \in DOMAIN job.trace : job.trace[i] = "sleep"

(* C30: from a frames configuration with at most one active frame, every
   sequence of create_frame, toggle_frame_active and delete_frame leaves at
   most one frame active, and a toggle of an existing frame that answers
   success leaves exactly that frame active. *)
C30_AtMostOneActive ==
    /\ [](Cardinality({i \in DOMAIN frames_config : frames_config[i].active}) <= 1)
    /\ [][\A current_admin \in BOOLEAN, frame_id \in FrameIds, outcome \in SaveOutcomes :
             (/\ last'.op = "toggle_frame_active"
              /\ DoToggleFrameActive(current_admin, frame_id, outcome)
              /\ last'.ret.status_code = "200")
             => (/\ FindFrame(frames_config, frame_id) # {}
                 /\ \A i \in DOMAIN frames_config' :
                       frames_config'[i].active <=> frames_config'[i].id = frame_id)]_vars

(* a toggle has moved the active flag from one frame to another *)
C30_Witness ==
    /\ last.op = "toggle_frame_active"
    /\ last.ret.status_code = "200"
    /\ last.pre # {}
    /\ last.pre # {last.arg}
    /\ ActiveIds(frames_config) = {last.arg}
    /\ Len(frames_config) = MaxFrames

====
